---- MODULE Spec2Model ----
(***************************************************************************)
(* A model of gridist's core (src/src/lib.rs): the grid geometry of        *)
(* ImageConfig and ImageCropper::get_xy, the f32 arithmetic of             *)
(* calculate_resize_dimensions, the palette re-quantization, and the       *)
(* parallel pipelines of crop_image and crop_gif.                          *)
(***************************************************************************)
EXTENDS Integers, Sequences, FiniteSets, TLC

VARIABLES
    config,     \* ImageCropper.config
    op,         \* the geometry call made last: its name and arguments
    result,     \* what that call returned
    \* One call of convert_to_indexed_optimized:
    rgba,       \* its input, a sequence of <<r, g, b, a>> pixels
    lookup,     \* its palette_lookup, a sequence of <<idx, <<r, g, b>>>>
    transparent,\* its transparent index
    kdtree,     \* the k-d tree it builds: what nearest() answers per colour
    chunkpc,    \* per chunk worker: "todo", "computed", "locked", "done"
    local,      \* per chunk worker: its local_result
    lock,       \* the Mutex around the shared Vec: its holder, or -1
    shared,     \* the shared Vec behind the Mutex
    indexed,    \* the Vec the call returned, once it has
    \* One call of crop_image or of crop_gif:
    source,     \* the file at the path: what decoding it gives
    canvas,     \* the dimensions of the resampled canvas
    slot,       \* per grid segment, the state of its parallel task
    files,      \* per grid segment, the output file on disk
    full,       \* the collect's flag: an Err was seen, stop taking tasks
    saved_error,\* the collect's saved error: the first Err stored
    cropped,    \* what the call returned, once it has
    \* The palette code:
    encoder_palette, \* the palette bytes in hand
    gif_frame,  \* the frame convert_to_rgba_optimized is called on
    expanded,   \* what the calls of convert_to_rgba_optimized returned
    pc,         \* where create_default_palette stands
    \* The task of one cell of crop_gif, step by step:
    cell,       \* where the task stands, its file and its frames
    tree_builds,\* the calls of create_palette_kdtree made so far
    \* The gist manager:
    gists,      \* GistManager.gists, the ids of the gists held
    list_state, \* GistManager.state: the selection of the list
    run_pc      \* where GistManager::run stands, and the key it read last

layoutVars == <<config, op, result>>

quantVars ==
    <<rgba, lookup, transparent, kdtree, chunkpc, local, lock, shared, indexed>>

cropVars == <<source, canvas, slot, files, full, saved_error, cropped>>

codecVars == <<encoder_palette, gif_frame, expanded, pc>>

cellVars == <<cell, tree_builds>>

gistVars == <<gists, list_state, run_pc>>

vars ==
    <<config, layoutVars, quantVars, cropVars, codecVars, cellVars, gistVars>>

(***************************************************************************)
(* Bounds of the model.                                                    *)
(***************************************************************************)
MaxContainer == 6
MaxCut == 2
MaxPad == 2
MaxSrcW == 4
MaxSrcH == 11
MaxIndex == 7
MaxPixels == 17
MaxCropSrc == 3
MaxFrames == 2
MaxFaults == 1
MaxIndices == 10
MaxPaletteIndex == 3
MaxSlack == 3
MaxGists == 3

(***************************************************************************)
(* config::ImageConfig.  Fields are u32 in the source; every value of the  *)
(* model stays far below 2^31, so additions and multiplications never      *)
(* wrap.  The one subtraction of the geometry can: see sub_u32.            *)
(***************************************************************************)
ImageConfig(c, w, h, pt, ph, pb, mb) ==
    [container_width |-> c, cut_width |-> w, cut_height |-> h,
     card_padding_top |-> pt, card_padding_horizontal |-> ph,
     card_padding_bottom |-> pb, card_margin_bottom |-> mb]

DefaultConfig == ImageConfig(928, 422, 100, 37, 16, 16, 16)

\* A config of a very tall card: its minimum_height() is 2^24 + 1, the first
\* u32 that `as f32` cannot hold.
TallConfig == ImageConfig(8764, 1, 5592403, 1, 1, 1, 1)

\* Every config with positive fields inside the bounds, the default one and
\* the tall one.
SmallConfigs ==
    { ImageConfig(c, w, h, pt, ph, pb, mb) :
        c \in 1..MaxContainer, w \in 1..MaxCut, h \in 1..MaxCut,
        pt \in 1..MaxPad, ph \in 1..MaxPad, pb \in 1..MaxPad, mb \in 1..MaxPad }

Configs == SmallConfigs \cup {DefaultConfig, TallConfig}

\* A card without its bottom padding.
card_height_without_bottom(cfg) == cfg.card_padding_top + cfg.cut_height

card_height(cfg) ==
    cfg.card_padding_top + cfg.cut_height + cfg.card_padding_bottom

y_offset(cfg) == card_height(cfg) + cfg.card_margin_bottom

\* A slip in the row count: five card heights instead of three.
minimum_height_five_rows(cfg) ==
    5 * card_height(cfg) + 2 * cfg.card_margin_bottom

minimum_height(cfg) == 3 * card_height(cfg) + 2 * cfg.card_margin_bottom

(***************************************************************************)
(* u32 subtraction.  a - b with a < b panics in a build with overflow      *)
(* checks and wraps to 2^32 + a - b without them.  The wrapped value is    *)
(* written as the negative number a - b (its two's complement reading), a  *)
(* one-to-one encoding of the u32 values the model can produce.            *)
(***************************************************************************)
sub_u32(a, b) == a - b

sub_overflows(a, b) == a < b

\* A slip in the column choice: every index in the left column.
get_x_always_left(cfg, index) == cfg.card_padding_horizontal

\* A slip in the right column: the padding forgotten.
get_x_without_padding(cfg, index) ==
    IF index % 2 = 0
    THEN cfg.card_padding_horizontal
    ELSE sub_u32(cfg.container_width, cfg.cut_width)

\* A slip in the right column: the padding added, not subtracted.
get_x_padding_added(cfg, index) ==
    IF index % 2 = 0
    THEN cfg.card_padding_horizontal
    ELSE sub_u32(cfg.container_width, cfg.cut_width) + cfg.card_padding_horizontal

\* x of get_xy: the left column for an even index, else the right column.
get_x(cfg, index) ==
    IF index % 2 = 0
    THEN cfg.card_padding_horizontal
    ELSE sub_u32(sub_u32(cfg.container_width, cfg.cut_width),
                 cfg.card_padding_horizontal)

\* A slip in the row pitch: rows card_height() apart, the margin forgotten.
get_y_without_margin(cfg, index) ==
    cfg.card_padding_top + (index \div 2) * card_height(cfg)

\* y of get_xy: index / 2 rows down, a row being y_offset() high.
get_y(cfg, index) ==
    cfg.card_padding_top + (index \div 2) * y_offset(cfg)

\* get_xy as a build without overflow checks computes it: no index check.
get_xy(cfg, index) == <<get_x(cfg, index), get_y(cfg, index)>>

\* Whether the subtraction chain of get_xy underflows for this index.
get_xy_overflows(cfg, index) ==
    /\ index % 2 = 1
    /\ \/ sub_overflows(cfg.container_width, cfg.cut_width)
       \/ sub_overflows(cfg.container_width - cfg.cut_width,
                        cfg.card_padding_horizontal)

\* The outcomes of a call of get_xy over the builds: a panic or the value.
get_xy_outcomes(cfg, index) ==
    IF get_xy_overflows(cfg, index)
    THEN { [kind |-> "panic", xy |-> <<0, 0>>],
           [kind |-> "value", xy |-> get_xy(cfg, index)] }
    ELSE { [kind |-> "value", xy |-> get_xy(cfg, index)] }

(***************************************************************************)
(* IEEE-754 binary32, round to nearest even, for the positive finite       *)
(* values calculate_resize_dimensions meets.  A value is <<m, e>> with     *)
(* 2^23 <= m < 2^24, standing for m * 2^e.  A u32 below 2^24 converts to   *)
(* f32 exactly; a larger one is rounded to 24 bits.  An operand is given   *)
(* as <<k, s>>, the integer k scaled by 2^s.                               *)
(***************************************************************************)
Pow2(n) == 2 ^ n

TwoTo23 == 2 ^ 23
TwoTo24 == 2 ^ 24

RECURSIVE DivLoop(_, _, _, _)
\* Long division of r/b continued below the quotient bits q so far, e the
\* exponent, until q has 24 bits: 12, 6, 3 or 1 more quotient bits a step,
\* as many as cannot carry q past 24 bits (r < b < 2^18, so r * 4096 fits).
DivLoop(q, r, b, e) ==
    IF q >= TwoTo23 THEN <<q, r, e>>
    ELSE IF q < 2048
    THEN DivLoop(q * 4096 + (r * 4096) \div b, (r * 4096) % b, b, e - 12)
    ELSE IF q < 131072
    THEN DivLoop(q * 64 + (r * 64) \div b, (r * 64) % b, b, e - 6)
    ELSE IF q < 1048576
    THEN DivLoop(q * 8 + (r * 8) \div b, (r * 8) % b, b, e - 3)
    ELSE DivLoop(q * 2 + (r * 2) \div b, (r * 2) % b, b, e - 1)

\* m rounded up or not on a remainder of num/den of an ulp, ties to even.
RoundEven(m, num, den) ==
    IF 2 * num > den \/ (2 * num = den /\ m % 2 = 1) THEN m + 1 ELSE m

Normalize(m, e) == IF m = TwoTo24 THEN <<TwoTo23, e + 1>> ELSE <<m, e>>

\* a as f32 / b as f32, for 0 < a, b < 2^18.
F32Div(a, b) ==
    LET d == DivLoop(a \div b, a % b, b, 0)
    IN  Normalize(RoundEven(d[1], d[2], b), d[3])

RECURSIVE BitLen(_)
BitLen(n) ==
    IF n >= 4096 THEN 12 + BitLen(n \div 4096)
    ELSE IF n >= 64 THEN 6 + BitLen(n \div 64)
    ELSE IF n >= 8 THEN 3 + BitLen(n \div 8)
    ELSE IF n >= 1 THEN 1 + BitLen(n \div 2)
    ELSE 0

\* n as f32 * f, for 0 < n < 2^16.  The exact product n * m, up to 40 bits,
\* is held as hi * 4096 + lo and rounded to 24 bits: d bits are dropped.
F32Mul(n, f) ==
    LET mh == f[1] \div 4096
        ml == f[1] % 4096
        hi == n * mh + (n * ml) \div 4096
        lo == (n * ml) % 4096
        d  == BitLen(hi) - 12
        r0 == IF d <= 12 THEN hi * Pow2(12 - d) + lo \div Pow2(d)
                         ELSE hi \div Pow2(d - 12)
        rem == IF d <= 12 THEN lo % Pow2(d)
                          ELSE (hi % Pow2(d - 12)) * 4096 + lo
    IN  Normalize(RoundEven(r0, rem, Pow2(d)), f[2] + d)

RECURSIVE strip(_, _)
\* m * 2^e with the trailing zero bits of m moved to the exponent.
strip(m, e) == IF m % 2 = 0 /\ m > 0 THEN strip(m \div 2, e + 1) ELSE <<m, e>>

\* n as f32, for a u32 n below 2^31: n itself below 2^24, else n rounded to
\* 24 bits, ties to even.
as_f32(n) ==
    IF n < TwoTo24 THEN <<n, 0>>
    ELSE LET s == BitLen(n) - 24
             r == Normalize(RoundEven(n \div Pow2(s), n % Pow2(s), Pow2(s)), s)
         IN  strip(r[1], r[2])

\* x / y of two converted operands, for 0 < x[1], y[1] < 2^18.
f32_div(x, y) ==
    LET q == F32Div(x[1], y[1]) IN <<q[1], q[2] + x[2] - y[2]>>

\* x * f of a converted operand and an f32, for 0 < x[1] < 2^16.
f32_mul(x, f) ==
    LET p == F32Mul(x[1], f) IN <<p[1], p[2] + x[2]>>

F32Ge(f, g) == f[2] > g[2] \/ (f[2] = g[2] /\ f[1] >= g[1])

F32Max(f, g) == IF F32Ge(g, f) THEN g ELSE f

\* f as u32: truncation toward zero.
F32ToU32(f) ==
    IF f[2] >= 0 THEN f[1] * Pow2(f[2])
    ELSE IF f[2] < -24 THEN 0
    ELSE f[1] \div Pow2(-f[2])

\* The branch calculate_resize_dimensions takes: aspect >= target aspect.
is_cover(cfg, width, height) ==
    F32Ge(f32_div(as_f32(width), as_f32(height)),
          f32_div(as_f32(cfg.container_width), as_f32(minimum_height(cfg))))

\* A fit branch that never returns less than minimum_height.
calculate_resize_dimensions_clamped(cfg, width, height) ==
    IF is_cover(cfg, width, height)
    THEN LET scale == F32Max(f32_div(as_f32(cfg.container_width), as_f32(width)),
                             f32_div(as_f32(minimum_height(cfg)), as_f32(height)))
         IN  <<F32ToU32(f32_mul(as_f32(width), scale)),
               F32ToU32(f32_mul(as_f32(height), scale))>>
    ELSE LET scale == f32_div(as_f32(cfg.container_width), as_f32(width))
             h == F32ToU32(f32_mul(as_f32(height), scale))
         IN  <<cfg.container_width,
               IF h < minimum_height(cfg) THEN minimum_height(cfg) ELSE h>>

calculate_resize_dimensions(cfg, width, height) ==
    IF is_cover(cfg, width, height)
    THEN LET scale == F32Max(f32_div(as_f32(cfg.container_width), as_f32(width)),
                             f32_div(as_f32(minimum_height(cfg)), as_f32(height)))
         IN  <<F32ToU32(f32_mul(as_f32(width), scale)),
               F32ToU32(f32_mul(as_f32(height), scale))>>
    ELSE LET scale == f32_div(as_f32(cfg.container_width), as_f32(width))
         IN  <<cfg.container_width, F32ToU32(f32_mul(as_f32(height), scale))>>

(***************************************************************************)
(* The geometry calls, one action each, on a cropper built with any        *)
(* config of Configs.  The functions are pure: a behaviour makes one call. *)
(***************************************************************************)
NumSlots == 6

Slots == 0..(NumSlots - 1)

NoOp == [name |-> "none", index |-> 0, width |-> 0, height |-> 0]

\* No geometry call is in progress.
LayoutIdle ==
    /\ op = NoOp
    /\ result = [kind |-> "none"]

\* No call of convert_to_indexed_optimized is in progress.
QuantIdle ==
    /\ rgba = <<>>
    /\ lookup = <<>>
    /\ transparent = 0
    /\ kdtree = <<>>
    /\ chunkpc = <<>>
    /\ local = <<>>
    /\ lock = -1
    /\ shared = <<>>
    /\ indexed = [kind |-> "none"]

\* No call of crop_image or crop_gif is in progress.
CropIdle ==
    /\ source = [kind |-> "none"]
    /\ canvas = <<0, 0>>
    /\ slot = <<>>
    /\ files = <<>>
    /\ full = FALSE
    /\ saved_error = [kind |-> "none"]
    /\ cropped = [kind |-> "none"]

\* Option<usize>.
None == [some |-> FALSE]

Some(i) == [some |-> TRUE, index |-> i]

\* No gist manager is running.
GistIdle ==
    /\ gists = <<>>
    /\ list_state = [selected |-> None]
    /\ run_pc = [at |-> "none", key |-> "none"]

\* No cell task is being followed and no k-d tree has been built.
CellIdle ==
    /\ cell = [pc |-> "none"]
    /\ tree_builds = 0

\* No palette is in hand and no expansion has been made.
CodecIdle ==
    /\ encoder_palette = <<>>
    /\ gif_frame = [kind |-> "none"]
    /\ expanded = <<>>
    /\ pc = [phase |-> "none"]

LayoutInit ==
    /\ config \in Configs
    /\ LayoutIdle
    /\ QuantIdle
    /\ CropIdle
    /\ CodecIdle
    /\ CellIdle
    /\ GistIdle

\* card_height(), y_offset() and minimum_height() of the config.
CallDerived ==
    /\ op = NoOp
    /\ op' = [NoOp EXCEPT !.name = "derived"]
    /\ result' = [kind |-> "derived",
                  card_height |-> card_height(config),
                  y_offset |-> y_offset(config),
                  minimum_height |-> minimum_height(config)]
    /\ UNCHANGED <<config, gistVars, cellVars, codecVars, quantVars, cropVars>>

\* get_xy(index), for any u32 index of the bound.
CallGetXY(index) ==
    /\ op = NoOp
    /\ op' = [NoOp EXCEPT !.name = "get_xy", !.index = index]
    /\ result' \in get_xy_outcomes(config, index)
    /\ UNCHANGED <<config, gistVars, cellVars, codecVars, quantVars, cropVars>>

\* The six get_xy calls of one crop, (0..6).map(get_xy), when none panics.
CallSlots ==
    /\ op = NoOp
    /\ \A i \in Slots : ~get_xy_overflows(config, i)
    /\ op' = [NoOp EXCEPT !.name = "slots"]
    /\ result' = [kind |-> "slots", xy |-> [i \in Slots |-> get_xy(config, i)]]
    /\ UNCHANGED <<config, gistVars, cellVars, codecVars, quantVars, cropVars>>

\* calculate_resize_dimensions(width, height) on positive source dimensions.
CallResize(width, height) ==
    /\ op = NoOp
    /\ op' = [NoOp EXCEPT !.name = "resize", !.width = width, !.height = height]
    /\ result' = [kind |-> "dims",
                  cover |-> is_cover(config, width, height),
                  dims |-> calculate_resize_dimensions(config, width, height)]
    /\ UNCHANGED <<config, gistVars, cellVars, codecVars, quantVars, cropVars>>

\* A narrow source, a little taller than the aspect of TallConfig.
NarrowSource == <<3, 5743>>

\* The (width, height) calculate_resize_dimensions is called on.
ResizeSources == ((1..MaxSrcW) \X (1..MaxSrcH)) \cup {NarrowSource}

LayoutNext ==
    \/ CallDerived
    \/ \E index \in 0..MaxIndex : CallGetXY(index)
    \/ CallSlots
    \/ \E wh \in ResizeSources : CallResize(wh[1], wh[2])

SpecLayout == LayoutInit /\ [][LayoutNext]_vars

(***************************************************************************)
(* The palette quantizer.  A palette is a sequence of bytes, three a       *)
(* colour; a pixel is <<r, g, b, a>>.                                      *)
(***************************************************************************)
ChunkSize == 8

AlphaThreshold == 128

\* create_optimized_palette_lookup: (idx as u8, [r, g, b]) for every chunk
\* of three bytes; a shorter chunk, which can only be the last, is skipped.
create_optimized_palette_lookup(palette) ==
    [k \in 1..(Len(palette) \div 3) |->
        <<(k - 1) % 256,
          <<palette[3 * k - 2], palette[3 * k - 1], palette[3 * k]>>>>]

\* The bytes convert_to_indexed_optimized hands to create_palette_kdtree:
\* the colours of the lookup, flattened.
flatten_lookup(lu) ==
    [b \in 1..(3 * Len(lu)) |-> lu[(b + 2) \div 3][2][((b - 1) % 3) + 1]]

\* create_palette_kdtree: the points of the tree, (idx as u8, colour) for
\* every whole triple of the bytes.
create_palette_kdtree(palette) == create_optimized_palette_lookup(palette)

\* A distance blind to the blue channel.
squared_euclidean_rg(a, b) ==
    (a[1] - b[1]) * (a[1] - b[1]) + (a[2] - b[2]) * (a[2] - b[2])

\* kdtree::distance::squared_euclidean, exact in f32 on bytes.
squared_euclidean(a, b) ==
    (a[1] - b[1]) * (a[1] - b[1]) + (a[2] - b[2]) * (a[2] - b[2])
        + (a[3] - b[3]) * (a[3] - b[3])

\* The indices nearest(rgb, 1) may answer: those of the points at the least
\* distance.  Which of several the tree answers is its own affair.
nearest_set(points, rgb) ==
    { points[k][1] : k \in
        { k \in 1..Len(points) :
            \A j \in 1..Len(points) :
                squared_euclidean(points[k][2], rgb)
                    <= squared_euclidean(points[j][2], rgb) } }

\* The colours of the pixels that reach the colour search.
opaque_colours(pixels) ==
    { <<pixels[k][1], pixels[k][2], pixels[k][3]>> :
        k \in { k \in 1..Len(pixels) : pixels[k][4] >= AlphaThreshold } }

\* The trees a build can give, each as its answer to every query the call
\* makes: one of the nearest points, the same one for the same colour.  A
\* tree with no point has no answer.
tree_answers(points, colours) ==
    LET all == UNION { nearest_set(points, c) : c \in colours }
    IN  IF Len(points) = 0
        THEN { <<>> }
        ELSE { f \in [colours -> all] :
                 \A c \in colours : f[c] \in nearest_set(points, c) }

\* A mapping that takes the threshold itself for transparent.
quantize_pixel_inclusive(tree, transp, pixel) ==
    IF pixel[4] <= AlphaThreshold
    THEN transp
    ELSE tree[<<pixel[1], pixel[2], pixel[3]>>]

\* The index one pixel maps to: the transparent index below the alpha
\* threshold, else the tree's answer for its colour.
quantize_pixel(tree, transp, pixel) ==
    IF pixel[4] < AlphaThreshold
    THEN transp
    ELSE tree[<<pixel[1], pixel[2], pixel[3]>>]

\* par_chunks(4 * chunk_size): the number of chunks of n pixels.
num_chunks(n) == (n + ChunkSize - 1) \div ChunkSize

\* The pixels of chunk c (from 0), the last chunk possibly shorter.
chunk_pixels(pixels, c) ==
    SubSeq(pixels, c * ChunkSize + 1,
           IF (c + 1) * ChunkSize < Len(pixels)
           THEN (c + 1) * ChunkSize ELSE Len(pixels))

\* A chunk worker's local_result.
chunk_result(tree, transp, pixels, c) ==
    LET px == chunk_pixels(pixels, c)
    IN  [k \in 1..Len(px) |-> quantize_pixel(tree, transp, px[k])]

\* nearest(..).unwrap() then [0] on a tree with no point panics.
chunk_panics(points, pixels, c) ==
    /\ Len(points) = 0
    /\ opaque_colours(chunk_pixels(pixels, c)) # {}

(***************************************************************************)
(* The inputs of a call: pixels drawn cyclically from a pool of five, a    *)
(* period that no chunk boundary shares, and a few palettes.  The pool     *)
(* has one colour at two opaque alphas, alphas on both sides of the        *)
(* threshold, and a colour halfway between two palette colours.            *)
(***************************************************************************)
PixelPool ==
    << <<0, 0, 0, 255>>, <<250, 250, 250, 128>>, <<255, 0, 0, 127>>,
       <<0, 0, 0, 128>>, <<4, 4, 4, 255>> >>

pattern_pixels(n, stride, shift) ==
    [k \in 1..n |->
        PixelPool[(((k - 1) * stride + shift) % Len(PixelPool)) + 1]]

RgbaInputs ==
    { pattern_pixels(n, stride, shift) :
        n \in 0..MaxPixels, stride \in 0..1, shift \in 0..(Len(PixelPool) - 1) }

Palettes ==
    { <<0, 0, 0, 255, 255, 255>>,
      <<255, 255, 255, 0, 0, 0, 0, 0, 0>>,
      <<0, 0, 0, 255, 255, 255, 9>>,
      <<0, 0, 0, 8, 8, 8>>,
      <<7, 7>> }

TransparentValues == {0, 200}

QuantInit ==
    /\ config = DefaultConfig
    /\ LayoutIdle
    /\ CropIdle
    /\ CodecIdle
    /\ CellIdle
    /\ GistIdle
    /\ rgba \in RgbaInputs
    /\ lookup \in { create_optimized_palette_lookup(p) : p \in Palettes }
    /\ transparent \in TransparentValues
    /\ kdtree = <<>>
    /\ chunkpc = [c \in 0..(num_chunks(Len(rgba)) - 1) |-> "todo"]
    /\ local = [c \in 0..(num_chunks(Len(rgba)) - 1) |-> <<>>]
    /\ lock = -1
    /\ shared = <<>>
    /\ indexed = [kind |-> "called", buffer |-> <<>>]

\* let kdtree = self.create_palette_kdtree(..), then the par_chunks starts.
BuildTree ==
    /\ indexed.kind = "called"
    /\ kdtree' \in tree_answers(create_palette_kdtree(flatten_lookup(lookup)),
                                 opaque_colours(rgba))
    /\ indexed' = [indexed EXCEPT !.kind = "running"]
    /\ tree_builds' = tree_builds + 1
    /\ UNCHANGED <<config, gistVars, cell, codecVars, layoutVars, cropVars, rgba, lookup,
                   transparent, chunkpc, local, lock, shared>>

\* A worker runs the closure on chunk c up to the lock: its local_result.
\* A panic in a worker is the call's panic.
ComputeChunk(c) ==
    /\ indexed.kind = "running"
    /\ chunkpc[c] = "todo"
    /\ IF chunk_panics(create_palette_kdtree(flatten_lookup(lookup)), rgba, c)
       THEN /\ indexed' = [indexed EXCEPT !.kind = "panicked"]
            /\ UNCHANGED <<chunkpc, local>>
       ELSE /\ local' = [local EXCEPT
                            ![c] = chunk_result(kdtree, transparent, rgba, c)]
            /\ chunkpc' = [chunkpc EXCEPT ![c] = "computed"]
            /\ UNCHANGED indexed
    /\ UNCHANGED <<config, gistVars, cellVars, codecVars, layoutVars, cropVars, rgba, lookup,
                   transparent, kdtree,
                   lock, shared>>

\* result.lock().unwrap(): the worker of chunk c takes the free Mutex.
LockShared(c) ==
    /\ indexed.kind = "running"
    /\ chunkpc[c] = "computed"
    /\ lock = -1
    /\ lock' = c
    /\ chunkpc' = [chunkpc EXCEPT ![c] = "locked"]
    /\ UNCHANGED <<config, gistVars, cellVars, codecVars, layoutVars, cropVars, rgba, lookup,
                   transparent, kdtree,
                   local, shared, indexed>>

\* An append that is not guarded: it starts from the Vec as it was empty and
\* loses what the other workers appended.
extend_unguarded(vec, c, items) == items

\* Where the holder of the lock puts its local_result in the shared Vec.
extend(vec, c, items) == vec \o items

\* result.extend(local_result), and the guard dropped at the closure's end.
ExtendShared(c) ==
    /\ indexed.kind = "running"
    /\ chunkpc[c] = "locked"
    /\ lock = c
    /\ shared' = extend(shared, c, local[c])
    /\ lock' = -1
    /\ chunkpc' = [chunkpc EXCEPT ![c] = "done"]
    /\ UNCHANGED <<config, gistVars, cellVars, codecVars, layoutVars, cropVars, rgba, lookup,
                   transparent, kdtree,
                   local, indexed>>

\* for_each has joined every worker: Arc::try_unwrap(result) is returned.
ReturnIndexed ==
    /\ indexed.kind = "running"
    /\ \A c \in DOMAIN chunkpc : chunkpc[c] = "done"
    /\ indexed' = [kind |-> "returned", buffer |-> shared]
    /\ UNCHANGED <<config, gistVars, cellVars, codecVars, layoutVars, cropVars, rgba, lookup,
                   transparent, kdtree,
                   chunkpc, local, lock, shared>>

QuantNext ==
    \/ BuildTree
    \/ \E c \in DOMAIN chunkpc : ComputeChunk(c)
    \/ \E c \in DOMAIN chunkpc : LockShared(c)
    \/ \E c \in DOMAIN chunkpc : ExtendShared(c)
    \/ ReturnIndexed

SpecQuant == QuantInit /\ [][QuantNext]_vars

\* The quantization of the whole input, pixel by pixel in input order.
quantized_in_order ==
    [k \in 1..Len(rgba) |-> quantize_pixel(kdtree, transparent, rgba[k])]

\* C1: for every input and every interleaving of the chunk workers, entry k
\* of the returned index buffer is the quantization of input pixel k (the
\* transparent index if its alpha < 128, else the nearest palette index).
C1_OutputInPixelOrder ==
    indexed.kind = "returned" => indexed.buffer = quantized_in_order

\* The points of the tree of the call in progress.
tree_points == create_palette_kdtree(flatten_lookup(lookup))

\* The least of a non-empty set of indices.
lowest(indices) == CHOOSE i \in indices : \A j \in indices : i <= j

\* C14: nearest(rgb) answers a palette index whose colour is at the least
\* squared Euclidean distance from rgb and, when several entries are at
\* that distance (duplicates included), the lowest such index.
C14_NearestLowestIndex ==
    (rgba # <<>> /\ indexed.kind \in {"running", "returned"}) =>
        \A c \in DOMAIN kdtree :
            /\ kdtree[c] \in nearest_set(tree_points, c)
            /\ kdtree[c] = lowest(nearest_set(tree_points, c))

\* C16: every pixel with alpha < 128 maps to the transparent index, with no
\* colour search (a tree without points is no obstacle); every pixel with
\* alpha >= 128 maps to nearest(R, G, B), the same whatever its alpha.
C16_AlphaMapping ==
    /\ \A c \in DOMAIN chunkpc :
          chunkpc[c] # "todo" =>
            \A k \in 1..Len(chunk_pixels(rgba, c)) :
                LET px == chunk_pixels(rgba, c)[k]
                    rgb == <<px[1], px[2], px[3]>>
                IN  IF px[4] < 128
                    THEN local[c][k] = transparent
                    ELSE /\ local[c][k] \in nearest_set(tree_points, rgb)
                         /\ local[c][k] = kdtree[rgb]
    /\ (Len(tree_points) = 0 /\ opaque_colours(rgba) = {})
          => indexed.kind # "panicked"

\* The call has returned for a buffer that holds black at alpha 255 and at
\* alpha 128 and a pixel of alpha 127, the transparent index being none of
\* the palette's.
C16_Witness ==
    /\ indexed.kind = "returned"
    /\ transparent = 200
    /\ \E i, j, k \in 1..Len(rgba) :
          /\ rgba[i] = <<0, 0, 0, 255>>
          /\ rgba[j] = <<0, 0, 0, 128>>
          /\ rgba[k][4] = 127

(***************************************************************************)
(* The expansion of indices to RGBA, and the round trip crop_gif makes of  *)
(* a frame: expanded, re-quantized against the same palette, and, to see   *)
(* what the indices written stand for, expanded again.                     *)
(***************************************************************************)
ExpandChunkSize == 8

OpaqueAlpha == 255

\* Option<u8>::unwrap_or.
unwrap_or(opt, default) == IF opt.some THEN opt.index ELSE default

\* The four bytes one index expands to.  palette_idx counts bytes from 0.
expand_pixel(pal, transp, pixel) ==
    LET palette_idx == pixel * 3
        alpha == IF transp.some /\ transp.index = pixel THEN 0 ELSE OpaqueAlpha
    IN  IF palette_idx + 2 < Len(pal)
        THEN <<pal[palette_idx + 1], pal[palette_idx + 2],
               pal[palette_idx + 3], alpha>>
        ELSE <<0, 0, 0, alpha>>

RECURSIVE flatten(_)
\* extend after extend: the sequences of seqs end to end.
flatten(seqs) ==
    IF seqs = <<>> THEN <<>> ELSE Head(seqs) \o flatten(Tail(seqs))

\* The bytes a run of indices expands to (local_rgba for a chunk).
expand_run(pal, transp, pixels) ==
    flatten([k \in 1..Len(pixels) |-> expand_pixel(pal, transp, pixels[k])])

\* frame.buffer.chunks_exact(chunk_size): the whole chunks only.
chunks_exact(buffer) ==
    [c \in 1..(Len(buffer) \div ExpandChunkSize) |->
        SubSeq(buffer, (c - 1) * ExpandChunkSize + 1, c * ExpandChunkSize)]

\* An expansion that forgets the indices after the last whole chunk.
remainder_dropped(buffer) == <<>>

\* chunks.remainder(): the indices after the last whole chunk.
remainder(buffer) ==
    SubSeq(buffer, (Len(buffer) \div ExpandChunkSize) * ExpandChunkSize + 1,
           Len(buffer))

\* convert_to_rgba_optimized(frame, palette): the main chunks, then the
\* remaining pixels.
convert_to_rgba_optimized(fr, pal) ==
    flatten([c \in DOMAIN chunks_exact(fr.buffer) |->
                expand_run(pal, fr.transparent, chunks_exact(fr.buffer)[c])])
        \o expand_run(pal, fr.transparent, remainder(fr.buffer))

\* The RGBA bytes as the pixels convert_to_indexed_optimized walks through.
pixels_of(bytes) ==
    [k \in 1..(Len(bytes) \div 4) |->
        <<bytes[4 * k - 3], bytes[4 * k - 2], bytes[4 * k - 1], bytes[4 * k]>>]

\* The palettes of the round trip: one without duplicates whose first two
\* colours differ in blue only, one with a duplicate, one with a trailing
\* incomplete triple, one without a whole triple.
CodecPalettes ==
    { <<0, 0, 0, 0, 0, 255, 255, 255, 255>>,
      <<255, 255, 255, 0, 0, 0, 0, 0, 0>>,
      <<0, 0, 0, 255, 255, 255, 9>>,
      <<7, 7>> }

\* The index buffers: a constant index or the indices in rotation.
index_buffer(n, stride, shift) ==
    [k \in 1..n |-> ((k - 1) * stride + shift) % (MaxPaletteIndex + 1)]

\* The frames: a buffer and the Option of a transparent index.
CodecFrames ==
    { [kind |-> "frame", buffer |-> index_buffer(n, stride, shift),
       transparent |-> t] :
        n \in 0..MaxIndices, stride \in 0..1, shift \in 0..MaxPaletteIndex,
        t \in { [some |-> FALSE], [some |-> TRUE, index |-> 0],
                [some |-> TRUE, index |-> 1] } }

CodecInit ==
    /\ config = DefaultConfig
    /\ LayoutIdle
    /\ QuantIdle
    /\ CropIdle
    /\ CellIdle
    /\ GistIdle
    /\ encoder_palette \in CodecPalettes
    /\ gif_frame \in CodecFrames
    /\ expanded = <<>>
    /\ pc = [phase |-> "none"]

\* let rgba_buffer = self.convert_to_rgba_optimized(frame, encoder_palette).
Expand ==
    /\ gif_frame.kind = "frame"
    /\ expanded = <<>>
    /\ expanded' = <<convert_to_rgba_optimized(gif_frame, encoder_palette)>>
    /\ UNCHANGED <<config, gistVars, cellVars, layoutVars, quantVars, cropVars, encoder_palette,
                   gif_frame, pc>>

\* self.convert_to_indexed_optimized(.., &palette_lookup,
\* frame.transparent.unwrap_or(0)) is called on the expanded pixels, the
\* lookup being create_optimized_palette_lookup(encoder_palette).
Requantize ==
    /\ Len(expanded) = 1
    /\ indexed.kind = "none"
    /\ rgba' = pixels_of(expanded[1])
    /\ lookup' = create_optimized_palette_lookup(encoder_palette)
    /\ transparent' = unwrap_or(gif_frame.transparent, 0)
    /\ chunkpc' = [c \in 0..(num_chunks(Len(rgba')) - 1) |-> "todo"]
    /\ local' = [c \in 0..(num_chunks(Len(rgba')) - 1) |-> <<>>]
    /\ indexed' = [kind |-> "called", buffer |-> <<>>]
    /\ UNCHANGED <<config, gistVars, cellVars, layoutVars, cropVars, codecVars, kdtree, lock,
                   shared>>

\* The indices written are read back: the expansion of the buffer
\* convert_to_indexed_optimized returned, same palette and transparent index.
ExpandAgain ==
    /\ Len(expanded) = 1
    /\ indexed.kind = "returned"
    /\ expanded' = Append(expanded,
            convert_to_rgba_optimized(
                [gif_frame EXCEPT !.buffer = indexed.buffer], encoder_palette))
    /\ UNCHANGED <<config, gistVars, cellVars, layoutVars, quantVars, cropVars, encoder_palette,
                   gif_frame, pc>>

CodecNext ==
    \/ Expand
    \/ Requantize
    \/ BuildTree
    \/ \E c \in DOMAIN chunkpc : ComputeChunk(c)
    \/ \E c \in DOMAIN chunkpc : LockShared(c)
    \/ \E c \in DOMAIN chunkpc : ExtendShared(c)
    \/ ReturnIndexed
    \/ ExpandAgain

SpecCodec == CodecInit /\ [][CodecNext]_vars

\* The triple of index i lies fully inside the palette bytes.
in_range(pal, i) == 3 * i + 3 <= Len(pal)

\* The colour of index i, for an index in range.
palette_colour(pal, i) == <<pal[3 * i + 1], pal[3 * i + 2], pal[3 * i + 3]>>

\* No two whole triples of the palette are the same colour.
no_duplicates(pal) ==
    \A i, j \in 0..(Len(pal) \div 3 - 1) :
        i # j => palette_colour(pal, i) # palette_colour(pal, j)

\* The k-th pixel, four bytes, of RGBA bytes.
pixel_at(bytes, k) == SubSeq(bytes, 4 * k - 3, 4 * k)

\* C13: for a palette with no duplicate colours and an in-range index i
\* that is not the transparent one, nearest(palette[i]) = i, and expanding
\* i, re-quantizing that pixel and expanding again gives the RGBA that
\* expanding i gives.  (The second half is read off buffers of one chunk,
\* which come back in pixel order.)
C13_RoundTrip ==
    (gif_frame.kind = "frame" /\ no_duplicates(encoder_palette)) =>
        \A k \in 1..Len(gif_frame.buffer) :
            LET i == gif_frame.buffer[k]
            IN  (in_range(encoder_palette, i)
                    /\ gif_frame.transparent # [some |-> TRUE, index |-> i])
                =>
                /\ indexed.kind \in {"running", "returned"} =>
                      kdtree[palette_colour(encoder_palette, i)] = i
                /\ (Len(expanded) = 2 /\ Len(gif_frame.buffer) <= ChunkSize) =>
                      pixel_at(expanded[2], k) = pixel_at(expanded[1], k)

\* A round trip is complete for a buffer of one chunk that holds an
\* in-range, non-transparent index other than 0, the palette having no
\* duplicate.
C13_Witness ==
    /\ gif_frame.kind = "frame"
    /\ no_duplicates(encoder_palette)
    /\ Len(expanded) = 2
    /\ Len(gif_frame.buffer) \in 1..ChunkSize
    /\ \E k \in 1..Len(gif_frame.buffer) :
          /\ gif_frame.buffer[k] = 1
          /\ in_range(encoder_palette, 1)
          /\ gif_frame.transparent # [some |-> TRUE, index |-> 1]

\* What the claim has index i expand to: the palette triple at byte offset
\* 3 i, or black when that triple is not fully inside the palette; alpha 0
\* exactly when the frame's transparent index is i, else 255.
rgba_of_index(pal, transp, i) ==
    (IF in_range(pal, i) THEN palette_colour(pal, i) ELSE <<0, 0, 0>>)
        \o <<IF transp = [some |-> TRUE, index |-> i] THEN 0 ELSE 255>>

\* The bytes are the pixelwise, order-preserving expansion of the buffer.
expansion_of(bytes, buffer, pal, transp) ==
    /\ Len(bytes) = 4 * Len(buffer)
    /\ \A k \in 1..Len(buffer) :
          pixel_at(bytes, k) = rgba_of_index(pal, transp, buffer[k])

\* C17: convert_to_rgba_optimized maps the whole frame buffer, whole chunks
\* and remainder alike, pixel by pixel and in order to four bytes an index:
\* the palette triple at index*3 or (0,0,0) when it is not fully inside the
\* palette, and alpha 0 exactly for the frame's transparent index, else 255.
C17_ExpansionPixelwise ==
    /\ Len(expanded) >= 1 =>
          expansion_of(expanded[1], gif_frame.buffer, encoder_palette,
                       gif_frame.transparent)
    /\ Len(expanded) = 2 =>
          expansion_of(expanded[2], indexed.buffer, encoder_palette,
                       gif_frame.transparent)

\* A buffer of a whole chunk and a remainder has been expanded; it holds the
\* transparent index and an index whose triple the palette cuts short.
C17_Witness ==
    /\ Len(expanded) >= 1
    /\ Len(gif_frame.buffer) > ExpandChunkSize
    /\ Len(gif_frame.buffer) % ExpandChunkSize # 0
    /\ Len(encoder_palette) % 3 # 0
    /\ \E k \in 1..Len(gif_frame.buffer) :
          gif_frame.buffer[k] = Len(encoder_palette) \div 3
    /\ \E k \in 1..Len(gif_frame.buffer) :
          gif_frame.transparent = [some |-> TRUE, index |-> gif_frame.buffer[k]]

\* C19: building the palette lookup and the nearest-colour index from
\* palette bytes whose length is not a multiple of 3 fails with
\* PaletteError.
C19_IncompleteTripleRejected ==
    (gif_frame.kind = "frame" /\ indexed.kind # "none"
        /\ Len(encoder_palette) % 3 # 0)
      => indexed.kind = "PaletteError"

(***************************************************************************)
(* create_default_palette, a step a loop iteration.                        *)
(***************************************************************************)
PaletteBytes == 768

GraySteps == 31

base_colors ==
    << <<255, 0, 0>>, <<0, 255, 0>>, <<0, 0, 255>>, <<255, 255, 0>>,
       <<255, 0, 255>>, <<0, 255, 255>>, <<255, 255, 255>>, <<0, 0, 0>> >>

\* `as u8` of an integer.
as_u8(v) == v % 256

\* Grays that climb by 16.
gray_level_by_16(i) == as_u8(i * 16)

\* (i * 8) as u8.
gray_level(i) == as_u8(i * 8)

\* let mut palette = Vec::with_capacity(768): the first loop is next.
PaletteInit ==
    /\ config = DefaultConfig
    /\ LayoutIdle
    /\ QuantIdle
    /\ CropIdle
    /\ CellIdle
    /\ GistIdle
    /\ encoder_palette = <<>>
    /\ gif_frame = [kind |-> "none"]
    /\ expanded = <<>>
    /\ pc = [phase |-> "base", i |-> 0]

\* An iteration of `for &(r, g, b) in &base_colors`.
PushBase ==
    /\ pc.phase = "base"
    /\ encoder_palette' = encoder_palette \o base_colors[pc.i + 1]
    /\ pc' = IF pc.i + 1 < Len(base_colors)
             THEN [pc EXCEPT !.i = pc.i + 1]
             ELSE [phase |-> "gray", i |-> 0]
    /\ UNCHANGED <<config, gistVars, cellVars, layoutVars, quantVars, cropVars, gif_frame,
                   expanded>>

\* An iteration of `for i in 0..31`.
PushGray ==
    /\ pc.phase = "gray"
    /\ encoder_palette' = encoder_palette \o
            <<gray_level(pc.i), gray_level(pc.i), gray_level(pc.i)>>
    /\ pc' = IF pc.i + 1 < GraySteps
             THEN [pc EXCEPT !.i = pc.i + 1]
             ELSE [phase |-> "fill", i |-> 0]
    /\ UNCHANGED <<config, gistVars, cellVars, layoutVars, quantVars, cropVars, gif_frame,
                   expanded>>

\* An iteration of `while palette.len() < 768`.
PushZero ==
    /\ pc.phase = "fill"
    /\ Len(encoder_palette) < PaletteBytes
    /\ encoder_palette' = encoder_palette \o <<0, 0, 0>>
    /\ UNCHANGED <<config, gistVars, cellVars, layoutVars, quantVars, cropVars, gif_frame,
                   expanded, pc>>

\* The loop is left and the palette returned.
ReturnPalette ==
    /\ pc.phase = "fill"
    /\ Len(encoder_palette) >= PaletteBytes
    /\ pc' = [phase |-> "returned", i |-> 0]
    /\ UNCHANGED <<config, gistVars, cellVars, layoutVars, quantVars, cropVars, encoder_palette,
                   gif_frame, expanded>>

PaletteNext == PushBase \/ PushGray \/ PushZero \/ ReturnPalette

SpecPalette == PaletteInit /\ [][PaletteNext]_vars

\* Entry k (from 0) of the default palette as the claim lists it.
default_entry(k) ==
    IF k = 0 THEN <<255, 0, 0>>
    ELSE IF k = 1 THEN <<0, 255, 0>>
    ELSE IF k = 2 THEN <<0, 0, 255>>
    ELSE IF k = 3 THEN <<255, 255, 0>>
    ELSE IF k = 4 THEN <<255, 0, 255>>
    ELSE IF k = 5 THEN <<0, 255, 255>>
    ELSE IF k = 6 THEN <<255, 255, 255>>
    ELSE IF k = 7 THEN <<0, 0, 0>>
    ELSE IF k <= 38 THEN <<8 * (k - 8), 8 * (k - 8), 8 * (k - 8)>>
    ELSE <<0, 0, 0>>

\* C15: the default fallback palette is always the same 768 bytes: entries
\* 0..7 are red, green, blue, yellow, magenta, cyan, white, black; entries
\* 8..38 the grays (8k, 8k, 8k) for k = 0..30; entries 39..255 (0, 0, 0).
C15_DefaultPalette ==
    pc.phase = "returned" =>
        /\ Len(encoder_palette) = 768
        /\ \A k \in 0..255 :
              SubSeq(encoder_palette, 3 * k + 1, 3 * k + 3) = default_entry(k)

\* create_default_palette has returned.
C15_Witness ==
    /\ pc.phase = "returned"
    /\ Len(encoder_palette) > 0

(***************************************************************************)
(* The crop pipelines.  Both resample the source to a canvas and cut the   *)
(* six segments out of it in parallel tasks whose Results are collected.   *)
(***************************************************************************)
Max(a, b) == IF a >= b THEN a ELSE b

Min(a, b) == IF a <= b THEN a ELSE b

\* ((target as i32 - required as i32) / 2).max(0) as u32: the division
\* truncates toward zero, so a target below the requirement gives 0.
centre_offset(target, required) ==
    IF target > required THEN (target - required) \div 2 ELSE 0

\* (offset_x, offset_y) of a crop, from the dimensions asked of the resize.
crop_offsets(cfg, target) ==
    <<centre_offset(target[1], cfg.container_width),
      centre_offset(target[2], minimum_height(cfg))>>

\* The rectangle of segment i: get_xy(i) + offsets, cut_width x cut_height.
slot_rect(cfg, target, i) ==
    [x |-> get_xy(cfg, i)[1] + crop_offsets(cfg, target)[1],
     y |-> get_xy(cfg, i)[2] + crop_offsets(cfg, target)[2],
     width |-> cfg.cut_width,
     height |-> cfg.cut_height]

\* The rectangle lies inside a canvas of dimensions cv.
rect_inside(rect, cv) ==
    /\ rect.x + rect.width <= cv[1]
    /\ rect.y + rect.height <= cv[2]

\* The offsets and the six rectangles a crop computes for a canvas of
\* dimensions target, when no get_xy panics.
CallRects(target) ==
    /\ op = NoOp
    /\ target[1] > 0
    /\ target[2] > 0
    /\ \A i \in Slots : ~get_xy_overflows(config, i)
    /\ op' = [NoOp EXCEPT !.name = "rects", !.width = target[1],
                          !.height = target[2]]
    /\ result' = [kind |-> "rects",
                  rects |-> [i \in Slots |-> slot_rect(config, target, i)]]
    /\ UNCHANGED <<config, gistVars, cellVars, codecVars, quantVars, cropVars>>

\* Canvases from one below the required area to MaxSlack above it.
RectsNext ==
    \E dw \in -1..MaxSlack, dh \in -1..MaxSlack :
        CallRects(<<config.container_width + dw, minimum_height(config) + dh>>)

SpecRects == LayoutInit /\ [][RectsNext]_vars

\* crop_imm: the image crate clamps the rectangle to the image, it does not
\* fail.  The dimensions of the view it returns.
crop_imm(cv, rect) ==
    LET x == Min(rect.x, cv[1])
        y == Min(rect.y, cv[2])
    IN  <<Min(rect.width, cv[1] - x), Min(rect.height, cv[2] - y)>>

\* f64::round of a * num / den as the image crate computes it in f64.  Off a
\* tie the f64 error, far below 1/(2 den), cannot change the result; on a
\* tie the last bit of the f64 quotient decides, so both are outcomes.
round_ratio(a, num, den) ==
    LET q == (a * num) \div den
        r == (a * num) % den
    IN  IF 2 * r < den THEN {q}
        ELSE IF 2 * r > den THEN {q + 1}
        ELSE {q, q + 1}

\* DynamicImage::resize(nwidth, nheight, _): the largest size of the source's
\* aspect ratio that fits in nwidth x nheight, each side at least 1.
image_resize(width, height, nwidth, nheight) ==
    LET byWidth == nwidth * height <= nheight * width
        num == IF byWidth THEN nwidth ELSE nheight
        den == IF byWidth THEN width ELSE height
    IN  { <<Max(w, 1), Max(h, 1)>> :
            w \in round_ratio(width, num, den),
            h \in round_ratio(height, num, den) }

\* The configs the pipelines are run with: none makes get_xy underflow.
CropConfigs ==
    { DefaultConfig,
      ImageConfig(3, 1, 2, 1, 1, 1, 1),
      ImageConfig(65539, 65537, 1, 1, 1, 1, 1) }

\* The file at the path: an image of some size, and whether the path's stem
\* is the UTF-8 the output names are made of.
ImageSources ==
    { [kind |-> "image", has_name |-> nm, width |-> w, height |-> h] :
        nm \in BOOLEAN, w \in 1..MaxCropSrc, h \in 1..MaxCropSrc }

NoError == [kind |-> "none"]

\* A collect that loses the errors of its tasks.
save_error_dropped(saved, err) == NoError

\* The Result collect of rayon keeps the first Err stored and drops the rest.
save_error(saved, err) == IF saved = NoError THEN err ELSE saved

\* The dimensions crop_image asks of the resize.
image_target == calculate_resize_dimensions(config, source.width, source.height)

CropImageInit ==
    /\ config \in CropConfigs
    /\ LayoutIdle
    /\ QuantIdle
    /\ CodecIdle
    /\ CellIdle
    /\ GistIdle
    /\ source \in ImageSources
    /\ canvas = <<0, 0>>
    /\ slot = [i \in Slots |-> "pending"]
    /\ files = [i \in Slots |-> <<>>]
    /\ full = FALSE
    /\ saved_error = NoError
    /\ cropped = [kind |-> "called"]

\* image::open(path)? fails, the file being unreadable or not an image: the
\* call returns the error.
OpenImageFails ==
    /\ cropped.kind = "called"
    /\ source.kind = "image"
    /\ cropped' = [kind |-> "err", error |-> [kind |-> "decode"]]
    /\ UNCHANGED <<config, gistVars, cellVars, codecVars, layoutVars, quantVars, source, canvas,
                   slot, files,
                   full, saved_error>>

\* image::open, calculate_resize_dimensions and image.resize.
ResizeImage ==
    /\ cropped.kind = "called"
    /\ source.kind = "image"
    /\ canvas' \in image_resize(source.width, source.height,
                                 image_target[1], image_target[2])
    /\ cropped' = [kind |-> "cropping"]
    /\ UNCHANGED <<config, gistVars, cellVars, codecVars, layoutVars, quantVars, source, slot,
                   files, full,
                   saved_error>>

\* The file system refuses an operation at most MaxFaults times in a run;
\* every task that failed so far counts.
may_fault == Cardinality({ i \in Slots : slot[i] = "err" }) < MaxFaults

\* The task of segment i runs and returns Err: the collect keeps the error
\* if it is the first and raises its flag.
SlotFails(i, err) ==
    /\ slot' = [slot EXCEPT ![i] = "err"]
    /\ saved_error' = save_error(saved_error, err)
    /\ full' = TRUE
    /\ UNCHANGED files

\* The task of segment i of crop_image: the file name, get_xy, crop_imm and
\* save, which the file system may refuse.
RunImageSlot(i) ==
    /\ cropped.kind = "cropping"
    /\ source.kind = "image"
    /\ slot[i] = "pending"
    /\ IF ~source.has_name
       THEN SlotFails(i, [kind |-> "file_name", slot |-> i])
       ELSE \/ /\ files' = [files EXCEPT
                              ![i] = crop_imm(canvas,
                                              slot_rect(config, image_target, i))]
               /\ slot' = [slot EXCEPT ![i] = "ok"]
               /\ UNCHANGED <<full, saved_error>>
            \/ /\ may_fault
               /\ SlotFails(i, [kind |-> "save", slot |-> i])
    /\ UNCHANGED <<config, gistVars, cellVars, codecVars, layoutVars, quantVars, source, canvas,
                   cropped>>

\* The collect's flag is up: a task not yet taken is dropped without running.
SkipSlot(i) ==
    /\ cropped.kind = "cropping"
    /\ slot[i] = "pending"
    /\ full
    /\ slot' = [slot EXCEPT ![i] = "skipped"]
    /\ UNCHANGED <<config, gistVars, cellVars, codecVars, layoutVars, quantVars, source, canvas,
                   files, full,
                   saved_error, cropped>>

\* collect::<Result<Vec<_>, _>>()?: the saved error, else the paths in
\* segment order.
ReturnCropped ==
    /\ cropped.kind = "cropping"
    /\ \A i \in Slots : slot[i] \in {"ok", "err", "skipped"}
    /\ cropped' = IF saved_error = NoError
                  THEN [kind |-> "ok", paths |-> [k \in 1..NumSlots |-> k - 1]]
                  ELSE [kind |-> "err", error |-> saved_error]
    /\ UNCHANGED <<config, gistVars, cellVars, codecVars, layoutVars, quantVars, source, canvas,
                   slot, files,
                   full, saved_error>>

CropImageNext ==
    \/ OpenImageFails
    \/ ResizeImage
    \/ \E i \in Slots : RunImageSlot(i)
    \/ \E i \in Slots : SkipSlot(i)
    \/ ReturnCropped

SpecImage == CropImageInit /\ [][CropImageNext]_vars

(***************************************************************************)
(* crop_gif.  Every segment is a cell: a GIF file of its own that receives *)
(* one frame per source frame.                                             *)
(***************************************************************************)
\* `as u16` of a u32.
as_u16(v) == v % 65536

\* Option<Vec<u8>> of palette bytes.
NoPalette == [some |-> FALSE]

SomePalette(bytes) == [some |-> TRUE, bytes |-> bytes]

\* The global palette of the GIFs that have one, and the local palette of
\* frame k where it has one: all different.
GlobalPalette == <<0, 0, 0, 255, 255, 255>>

LocalPalette(k) == <<k, k, k, 255, 0, 0>>

\* create_default_palette(): the base colours, the grays, the fill of
\* (0,0,0) triples up to 768 bytes.
create_default_palette ==
    LET head == flatten(base_colors) \o
                flatten([i \in 1..GraySteps |->
                    <<gray_level(i - 1), gray_level(i - 1), gray_level(i - 1)>>])
        fill == IF Len(head) < PaletteBytes
                THEN 3 * ((PaletteBytes - Len(head) + 2) \div 3) ELSE 0
    IN  head \o [k \in 1..fill |-> 0]

\* A choice that looks at the first frame before the global palette.
encoder_palette_local_first(src) ==
    IF Len(src.frames) > 0 /\ src.frames[1].palette.some
    THEN src.frames[1].palette.bytes
    ELSE IF src.global_palette.some THEN src.global_palette.bytes
    ELSE create_default_palette

\* global_palette.or_else(first frame's palette).map_or(&default_palette).
encoder_palette_of(src) ==
    IF src.global_palette.some THEN src.global_palette.bytes
    ELSE IF Len(src.frames) > 0 /\ src.frames[1].palette.some
    THEN src.frames[1].palette.bytes
    ELSE create_default_palette

\* The k-th frame read_next_frame yields.  The fields crop_gif copies differ
\* from frame to frame; pixels names the frame's image data.
decoded_frame(k) ==
    [delay |-> 10 * k,
     dispose |-> IF k % 2 = 1 THEN "Keep" ELSE "Background",
     transparent |-> IF k % 2 = 1 THEN [some |-> TRUE, index |-> k]
                                  ELSE [some |-> FALSE],
     needs_user_input |-> (k % 2 = 0),
     palette |-> NoPalette,
     pixels |-> k]

\* The logical screen sizes of the GIFs the pipeline is run with.
GifSizes == { <<1, 1>>, <<65535, 11>> }

\* A GIF file: its logical screen size, its global palette if any, and n
\* frames, those of locals with a local palette.
gif_source(nm, w, h, global, n, locals) ==
    [kind |-> "gif", has_name |-> nm, width |-> w, height |-> h,
     global_palette |-> global,
     frames |-> [k \in 1..n |->
                  [decoded_frame(k) EXCEPT
                      !.palette = IF k \in locals
                                  THEN SomePalette(LocalPalette(k))
                                  ELSE NoPalette]]]

\* The file at the path: a GIF of some logical screen size and some frames,
\* with a global palette and no local one.
GifSources ==
    { gif_source(nm, w, h, SomePalette(GlobalPalette), n, {}) :
        nm \in BOOLEAN, <<w, h>> \in GifSizes, n \in 0..MaxFrames }

\* GIFs of the other palette layouts: local palettes beside the global one,
\* local palettes alone, a local palette on a later frame only, no palette
\* at all, and no palette and no frame.
PaletteSources ==
    { gif_source(TRUE, 1, 1, SomePalette(GlobalPalette), 2, {1, 2}),
      gif_source(TRUE, 1, 1, NoPalette, 2, {1, 2}),
      gif_source(TRUE, 1, 1, NoPalette, 2, {2}),
      gif_source(TRUE, 1, 1, NoPalette, 2, {}),
      gif_source(TRUE, 1, 1, NoPalette, 0, {}) }

\* The closure of the inner map: the Frame built from one source frame for
\* the cell whose tile has dimensions tile.  The buffer is the re-quantized
\* tile cut from that frame's pixels, expanded with encoder_palette and
\* re-quantized with palette_lookup; the Frame has no palette of its own.
process_frame(cfg, tile, frame) ==
    [delay |-> frame.delay,
     dispose |-> frame.dispose,
     transparent |-> frame.transparent,
     needs_user_input |-> frame.needs_user_input,
     top |-> 0,
     left |-> 0,
     width |-> as_u16(cfg.cut_width),
     height |-> as_u16(cfg.cut_height),
     palette |-> NoPalette,
     expanded_with |-> encoder_palette,
     quantized_with |-> lookup,
     buffer |-> [pixels |-> frame.pixels, len |-> tile[1] * tile[2]]]

Unfilled == [kind |-> "unfilled"]

first_unfilled(vec) == CHOOSE k \in DOMAIN vec : vec[k] = Unfilled /\
                           \A l \in DOMAIN vec : vec[l] = Unfilled => k <= l

\* A result put where the tasks finish, whatever item it came from.
place_in_completion_order(vec, idx, item) ==
    [vec EXCEPT ![first_unfilled(vec)] = item]

\* The collect of a parallel iterator puts the result of item idx at
\* position idx.
place(vec, idx, item) == [vec EXCEPT ![idx] = item]

\* frames.par_iter().map(..).collect(): the tasks finish in the order
\* `order`, from position k of it on.
RECURSIVE collect_frames(_, _, _, _)
collect_frames(order, k, items, vec) ==
    IF k > Len(order) THEN vec
    ELSE collect_frames(order, k + 1, items,
                        place(vec, order[k], items[order[k]]))

\* The orders in which n tasks can finish.
completion_orders(n) ==
    { o \in [1..n -> 1..n] : \A a, b \in 1..n : o[a] = o[b] => a = b }

\* processed_frames of a cell whose inner tasks finish in `order`.
processed_frames(cfg, tile, frames, order) ==
    collect_frames(order, 1,
                   [k \in 1..Len(frames) |->
                        process_frame(cfg, tile, frames[k])],
                   [k \in 1..Len(frames) |-> Unfilled])

\* Encoder::write_frame refuses a buffer shorter than width * height.
buffer_too_small(frame) == frame.buffer.len < frame.width * frame.height

\* The tile crop_imm cuts for cell i out of a frame resampled to the canvas.
gif_tile(i) == crop_imm(canvas, slot_rect(config, canvas, i))

CropGifInit ==
    /\ \/ config \in CropConfigs /\ source \in GifSources
       \/ config = DefaultConfig /\ source \in PaletteSources
    /\ LayoutIdle
    /\ QuantIdle
    /\ CodecIdle
    /\ CellIdle
    /\ GistIdle
    /\ canvas = <<0, 0>>
    /\ slot = [i \in Slots |-> "pending"]
    /\ files = [i \in Slots |-> <<>>]
    /\ full = FALSE
    /\ saved_error = NoError
    /\ cropped = [kind |-> "called"]

\* A decoder that reads lazily: the error of a frame shows once cells have
\* been written.
ReadGifFailsLate ==
    /\ cropped.kind = "cropping"
    /\ source.kind = "gif"
    /\ \E i \in Slots : slot[i] = "ok"
    /\ cropped' = [kind |-> "err", error |-> [kind |-> "decode", frame |-> 1]]
    /\ UNCHANGED <<config, gistVars, cellVars, codecVars, layoutVars, quantVars, source, canvas,
                   slot, files,
                   full, saved_error>>

\* File::open or Decoder::new fails (frame 0), or read_next_frame fails on
\* frame k of the file: the call returns the error before any cell is
\* touched, all frames being read before the cells start.
ReadGifFails ==
    /\ cropped.kind = "called"
    /\ source.kind = "gif"
    /\ \E k \in 0..Len(source.frames) :
        cropped' = [kind |-> "err", error |-> [kind |-> "decode", frame |-> k]]
    /\ UNCHANGED <<config, gistVars, cellVars, codecVars, layoutVars, quantVars, source, canvas,
                   slot, files,
                   full, saved_error>>

\* The frames are read and the size every frame is resampled to is computed
\* from the logical screen; imageops::resize gives exactly that size.  The
\* encoding palette is chosen and its lookup built, once.
ReadGif ==
    /\ cropped.kind = "called"
    /\ source.kind = "gif"
    /\ canvas' = calculate_resize_dimensions(config, source.width, source.height)
    /\ encoder_palette' = encoder_palette_of(source)
    /\ lookup' = create_optimized_palette_lookup(encoder_palette')
    /\ cropped' = [kind |-> "cropping"]
    /\ tree_builds' = 0
    /\ UNCHANGED <<config, gistVars, cell, layoutVars, source, slot, files, full, saved_error,
                   gif_frame, expanded, pc, rgba, transparent, kdtree, chunkpc,
                   local, lock, shared, indexed>>

\* The task of cell i: the file name, File::create, Encoder::new and
\* set_repeat; the inner parallel map over the frames, whose tasks finish in
\* some order, and its collect; the loop of write_frame, which stops at the
\* first frame the encoder or the file system refuses.  The file exists,
\* with the frames written so far, once File::create has succeeded.  Every
\* frame processed is a call of convert_to_indexed_optimized, which builds
\* its k-d tree.
RunCell(i) ==
    /\ cropped.kind = "cropping"
    /\ source.kind = "gif"
    /\ slot[i] = "pending"
    /\ IF ~source.has_name
       THEN /\ SlotFails(i, [kind |-> "file_name", slot |-> i])
            /\ UNCHANGED tree_builds
       ELSE \/ /\ may_fault
               /\ SlotFails(i, [kind |-> "create", slot |-> i])
               /\ UNCHANGED tree_builds
            \/ \E order \in completion_orders(Len(source.frames)) :
                 /\ tree_builds' = tree_builds + Len(source.frames)
                 /\ LET processed == processed_frames(config, gif_tile(i),
                                                      source.frames, order)
                        n == Len(processed)
                        refused(k) ==
                            /\ files' = [files EXCEPT ![i] =
                                   [palette |-> encoder_palette,
                                    frames |-> SubSeq(processed, 1, k - 1)]]
                            /\ slot' = [slot EXCEPT ![i] = "err"]
                            /\ saved_error' = save_error(saved_error,
                                   [kind |-> "encoding", slot |-> i])
                            /\ full' = TRUE
                    IN  IF n > 0 /\ buffer_too_small(processed[1])
                        THEN refused(1)
                        ELSE \/ /\ files' = [files EXCEPT ![i] =
                                       [palette |-> encoder_palette,
                                        frames |-> processed]]
                                /\ slot' = [slot EXCEPT ![i] = "ok"]
                                /\ UNCHANGED <<full, saved_error>>
                             \/ /\ may_fault
                                /\ \E k \in 1..n : refused(k)
    /\ UNCHANGED <<config, gistVars, cell, codecVars, layoutVars, quantVars, source,
                   canvas, cropped>>

CropGifNext ==
    \/ ReadGifFails
    \/ ReadGif
    \/ \E i \in Slots : RunCell(i)
    \/ \E i \in Slots : SkipSlot(i)
    \/ ReturnCropped

SpecGif == CropGifInit /\ [][CropGifNext]_vars

\* C2: in crop_gif, for every cell and every completion order of the
\* per-frame tasks, the j-th frame written to the cell's encoder is the one
\* derived from the j-th decoded source frame.
C2_FramesInDecodeOrder ==
    source.kind = "gif" =>
        \A i \in Slots :
            files[i] # <<>> =>
                \A j \in 1..Len(files[i].frames) :
                    files[i].frames[j].buffer.pixels = source.frames[j].pixels

\* Some cell received several frames, so their order was at stake.
C2_Witness ==
    /\ source.kind = "gif"
    /\ cropped.kind = "ok"
    /\ \E i \in Slots : files[i] # <<>> /\ Len(files[i].frames) >= 2

\* C3: when crop_gif succeeds each of the six cells holds as many frames as
\* the source, and the j-th frame of every cell has the delay, disposal
\* method, transparent index and user-input flag of the j-th source frame,
\* top = 0, left = 0, width = cut_width and height = cut_height.
C3_FramesPreserved ==
    (source.kind = "gif" /\ cropped.kind = "ok") =>
        \A i \in Slots :
            /\ files[i] # <<>>
            /\ Len(files[i].frames) = Len(source.frames)
            /\ \A j \in 1..Len(source.frames) :
                LET out == files[i].frames[j]
                    src == source.frames[j]
                IN  /\ out.delay = src.delay
                    /\ out.dispose = src.dispose
                    /\ out.transparent = src.transparent
                    /\ out.needs_user_input = src.needs_user_input
                    /\ out.top = 0
                    /\ out.left = 0
                    /\ out.width = config.cut_width
                    /\ out.height = config.cut_height

\* C11: crop_gif fails whenever any of the six cells fails: a cell whose
\* frame is refused while it is processed or encoded has failed, and
\* crop_gif then returns an error, not a list of paths.
C11_AnyCellFailureFails ==
    (source.kind = "gif" /\ cropped.kind \in {"ok", "err"}
        /\ \E i \in Slots : slot[i] = "err")
      => cropped.kind = "err"

\* crop_gif has returned after the encoder refused a frame of some cell
\* while other cells were written whole.
C11_Witness ==
    /\ source.kind = "gif"
    /\ cropped.kind = "err"
    /\ cropped.error.kind = "encoding"
    /\ \E i \in Slots : slot[i] = "ok"

\* The palette the claim has crop_gif encode with: the global palette if
\* the source has one, else the first frame's local palette if it has one,
\* else the 256 entries of the default palette.
claimed_palette ==
    IF source.global_palette.some THEN source.global_palette.bytes
    ELSE IF source.frames # <<>> /\ Head(source.frames).palette.some
    THEN Head(source.frames).palette.bytes
    ELSE [b \in 1..(3 * 256) |-> default_entry((b - 1) \div 3)[((b - 1) % 3) + 1]]

\* C18: the encoding palette of crop_gif is the source's global palette
\* when present, else the first frame's local palette when present, else
\* the default fallback palette; the expansion and the re-quantization of
\* every frame and the encoder of every cell use that one palette.
C18_OneEncodingPalette ==
    (source.kind = "gif" /\ cropped.kind # "called"
        /\ ~(cropped.kind = "err" /\ cropped.error.kind = "decode")) =>
        LET the_palette == claimed_palette
            the_lookup == create_optimized_palette_lookup(the_palette)
        IN  /\ encoder_palette = the_palette
            /\ \A i \in Slots :
                  files[i] # <<>> =>
                    /\ files[i].palette = the_palette
                    /\ \A j \in 1..Len(files[i].frames) :
                          LET out == files[i].frames[j]
                          IN  /\ out.expanded_with = the_palette
                              /\ out.quantized_with = the_lookup
                              /\ out.palette = NoPalette

\* crop_gif has written two frames a cell from a GIF without a global
\* palette whose frames have different local palettes.
C18_Witness ==
    /\ source.kind = "gif"
    /\ cropped.kind = "ok"
    /\ ~source.global_palette.some
    /\ Len(source.frames) = 2
    /\ source.frames[1].palette.some
    /\ source.frames[2].palette.some
    /\ source.frames[1].palette # source.frames[2].palette

\* C23: during one crop_gif invocation the k-d tree of the encoding palette
\* is built exactly once and reused by every cell and every frame: it is
\* never built a second time, and it has been built once a frame has been
\* processed.
C23_TreeBuiltOnce ==
    source.kind = "gif" =>
        /\ tree_builds <= 1
        /\ (\E i \in Slots : files[i] # <<>> /\ source.frames # <<>>)
              => tree_builds = 1

(***************************************************************************)
(* The task of one cell of crop_gif, statement by statement, from the      *)
(* state crop_gif is in once the frames are read, the canvas computed and  *)
(* the palette chosen.  files[i] is the file of the cell on disk: absent,  *)
(* created and empty, or with the header and the frames written so far.    *)
(***************************************************************************)
CellInit ==
    /\ config \in CropConfigs
    /\ source \in GifSources
    /\ LayoutIdle
    /\ rgba = <<>>
    /\ transparent = 0
    /\ kdtree = <<>>
    /\ chunkpc = <<>>
    /\ local = <<>>
    /\ lock = -1
    /\ shared = <<>>
    /\ indexed = [kind |-> "none"]
    /\ gif_frame = [kind |-> "none"]
    /\ expanded = <<>>
    /\ pc = [phase |-> "none"]
    /\ canvas = calculate_resize_dimensions(config, source.width, source.height)
    /\ encoder_palette = encoder_palette_of(source)
    /\ lookup = create_optimized_palette_lookup(encoder_palette)
    /\ slot = [i \in Slots |-> "pending"]
    /\ files = [i \in Slots |-> <<>>]
    /\ full = FALSE
    /\ saved_error = NoError
    /\ cropped = [kind |-> "cropping"]
    /\ tree_builds = 0
    /\ GistIdle
    /\ \E i \in Slots :
         cell = [pc |-> "start", i |-> i, written |-> 0,
                 processed |-> [k \in 1..Len(source.frames) |-> Unfilled]]

\* The closure of the cell returns Err.
CellFails(kind) ==
    /\ cell' = [cell EXCEPT !.pc = "failed"]
    /\ SlotFails(cell.i, [kind |-> kind, slot |-> cell.i])

\* The file name and File::create.
CreateFile ==
    /\ cell.pc = "start"
    /\ IF ~source.has_name
       THEN CellFails("file_name")
       ELSE \/ /\ files' = [files EXCEPT ![cell.i] =
                                [header |-> FALSE, frames |-> <<>>]]
               /\ cell' = [cell EXCEPT !.pc = "created"]
               /\ UNCHANGED <<slot, full, saved_error>>
            \/ /\ may_fault
               /\ CellFails("create")
    /\ UNCHANGED <<config, gistVars, layoutVars, quantVars, codecVars, source, canvas,
                   cropped, tree_builds>>

\* Encoder::new, which writes the header, the screen descriptor and the
\* palette to the file, and set_repeat.
NewEncoder ==
    /\ cell.pc = "created"
    /\ \/ /\ files' = [files EXCEPT ![cell.i] =
                           [header |-> TRUE, palette |-> encoder_palette,
                            frames |-> <<>>]]
          /\ cell' = [cell EXCEPT !.pc = "mapping"]
          /\ UNCHANGED <<slot, full, saved_error>>
       \/ /\ may_fault
          /\ CellFails("encoder")
    /\ UNCHANGED <<config, gistVars, layoutVars, quantVars, codecVars, source, canvas,
                   cropped, tree_builds>>

\* The closure of the inner parallel map on frame k: the frames are taken in
\* any order.  convert_to_indexed_optimized builds its k-d tree.
ProcessFrame(k) ==
    /\ cell.pc = "mapping"
    /\ k \in DOMAIN cell.processed
    /\ cell.processed[k] = Unfilled
    /\ cell' = [cell EXCEPT !.processed =
                   place(cell.processed, k,
                         process_frame(config, gif_tile(cell.i), source.frames[k]))]
    /\ tree_builds' = tree_builds + 1
    /\ UNCHANGED <<config, gistVars, layoutVars, quantVars, codecVars, cropVars>>

\* The collect of the inner map returns once every frame has been processed.
CollectFrames ==
    /\ cell.pc = "mapping"
    /\ \A k \in DOMAIN cell.processed : cell.processed[k] # Unfilled
    /\ cell' = [cell EXCEPT !.pc = "writing"]
    /\ UNCHANGED <<config, gistVars, layoutVars, quantVars, codecVars, cropVars,
                   tree_builds>>

\* One turn of the loop of write_frame.
WriteFrame ==
    /\ cell.pc = "writing"
    /\ cell.written < Len(cell.processed)
    /\ LET frame == cell.processed[cell.written + 1]
       IN  IF buffer_too_small(frame)
           THEN CellFails("encoding")
           ELSE \/ /\ files' = [files EXCEPT ![cell.i].frames =
                                    Append(@, frame)]
                   /\ cell' = [cell EXCEPT !.written = @ + 1]
                   /\ UNCHANGED <<slot, full, saved_error>>
                \/ /\ may_fault
                   /\ CellFails("encoding")
    /\ UNCHANGED <<config, gistVars, layoutVars, quantVars, codecVars, source, canvas,
                   cropped, tree_builds>>

\* Ok(output_path).
FinishCell ==
    /\ cell.pc = "writing"
    /\ cell.written = Len(cell.processed)
    /\ cell' = [cell EXCEPT !.pc = "done"]
    /\ slot' = [slot EXCEPT ![cell.i] = "ok"]
    /\ UNCHANGED <<config, gistVars, layoutVars, quantVars, codecVars, source, canvas,
                   files, full, saved_error, cropped, tree_builds>>

CellNext ==
    \/ CreateFile
    \/ NewEncoder
    \/ \E k \in 1..MaxFrames : ProcessFrame(k)
    \/ CollectFrames
    \/ WriteFrame
    \/ FinishCell

SpecCell == CellInit /\ [][CellNext]_vars

\* C21: in crop_gif nothing is created or written for the file of a cell
\* until all the frames of that cell have been computed: whenever the file
\* exists, every frame of the cell has been processed.
C21_NoFileBeforeFramesComputed ==
    (cell.pc # "none" /\ files[cell.i] # <<>>) =>
        \A k \in DOMAIN cell.processed : cell.processed[k] # Unfilled

\* Both pipelines, on an image or on a GIF.
CropInit == CropImageInit \/ CropGifInit

CropNext == CropImageNext \/ CropGifNext

SpecCrop == CropInit /\ [][CropNext]_vars

\* C12: a decode error (an unreadable source, or a corrupt frame at any
\* position of a GIF) ends crop_image or crop_gif with that error and none
\* of the six output files created, written or attempted.
C12_DecodeErrorNoOutput ==
    (cropped.kind = "err" /\ cropped.error.kind = "decode") =>
        \A i \in Slots : files[i] = <<>> /\ slot[i] = "pending"

\* crop_gif has returned the error of a corrupt second frame.
C12_Witness ==
    /\ source.kind = "gif"
    /\ cropped.kind = "err"
    /\ cropped.error = [kind |-> "decode", frame |-> 2]

\* C4: cropping fails with a bounds error whenever some segment's rectangle
\* extends past the resampled canvas; it never returns successfully with a
\* tile smaller than cut_width x cut_height.
C4_NoUndersizedTile ==
    (source.kind = "image" /\ cropped.kind = "ok") =>
        \A i \in Slots :
            /\ rect_inside(slot_rect(config, image_target, i), canvas)
            /\ files[i] = <<config.cut_width, config.cut_height>>

\* C10: in crop_image every one of the six segments is attempted before the
\* operation returns an error; a failure in one never keeps another from
\* being processed.
C10_AllSlotsAttempted ==
    (source.kind = "image" /\ cropped.kind = "err"
        /\ cropped.error.kind # "decode") =>
        \A i \in Slots : slot[i] \in {"ok", "err"}

(***************************************************************************)
(* Properties of the geometry.                                             *)
(***************************************************************************)
\* The rectangles of size cut_width x cut_height at origins a and b overlap.
RectsOverlap(cfg, a, b) ==
    /\ a[1] < b[1] + cfg.cut_width
    /\ b[1] < a[1] + cfg.cut_width
    /\ a[2] < b[2] + cfg.cut_height
    /\ b[2] < a[2] + cfg.cut_height

\* The six origins are distinct and their rectangles pairwise disjoint.
SlotsDisjoint(cfg, xy) ==
    \A i, j \in Slots :
        i # j => xy[i] # xy[j] /\ ~RectsOverlap(cfg, xy[i], xy[j])

\* The invariant the spec asks of a config.
FitsOneColumn(cfg) ==
    cfg.cut_width + 2 * cfg.card_padding_horizontal <= cfg.container_width

\* Room for two columns side by side.
FitsTwoColumns(cfg) ==
    2 * cfg.cut_width + 2 * cfg.card_padding_horizontal <= cfg.container_width

\* C24: for every config with cut_width + 2 * card_padding_horizontal <=
\* container_width and every canvas at least container_width wide and
\* minimum_height high, each of the six crop rectangles, get_xy(i) plus the
\* truncated centring offsets, cut_width x cut_height, lies inside the
\* canvas.
C24_RectsInsideCanvas ==
    (result.kind = "rects" /\ FitsOneColumn(config)
        /\ op.width >= config.container_width
        /\ op.height >= minimum_height(config)) =>
        \A i \in Slots :
            /\ result.rects[i].x >= 0
            /\ result.rects[i].y >= 0
            /\ result.rects[i].width = config.cut_width
            /\ result.rects[i].height = config.cut_height
            /\ rect_inside(result.rects[i], <<op.width, op.height>>)

\* The rectangles have been computed for a fitting config and a canvas
\* larger than required by odd amounts, where the offsets truncate.
C24_Witness ==
    /\ result.kind = "rects"
    /\ FitsOneColumn(config)
    /\ op.width > config.container_width
    /\ op.height > minimum_height(config)
    /\ (op.width - config.container_width) % 2 = 1
    /\ (op.height - minimum_height(config)) % 2 = 1
    /\ result.rects[5].x > result.rects[0].x

\* The results of the chunks, each whole and in its own order, end to end
\* in the order `order` of the chunks (chunk c, from 0, is number c + 1).
chunks_in_order(order) ==
    flatten([k \in 1..Len(order) |->
                chunk_result(kdtree, transparent, rgba, order[k] - 1)])

\* C25: for every interleaving of the chunk workers of
\* convert_to_indexed_optimized, the returned buffer has exactly one entry
\* per input pixel and is the results of the 8-pixel chunks, each contiguous
\* and in within-chunk order, in some order of the chunks: no result is
\* lost, duplicated or interleaved with another chunk's.
C25_ChunksAppendedWhole ==
    indexed.kind = "returned" =>
        /\ Len(indexed.buffer) = Len(rgba)
        /\ \E order \in completion_orders(num_chunks(Len(rgba))) :
              indexed.buffer = chunks_in_order(order)

\* A call on more than one chunk has returned with the chunks appended out
\* of input order.
C25_Witness ==
    /\ indexed.kind = "returned"
    /\ num_chunks(Len(rgba)) > 1
    /\ Len(indexed.buffer) = Len(rgba)
    /\ indexed.buffer # quantized_in_order

\* C27: for every config with cut_width + 2 * card_padding_horizontal <=
\* container_width, get_xy computes the x of an odd index,
\* container_width - cut_width - card_padding_horizontal, without u32
\* underflow, and that x is at least card_padding_horizontal and
\* x + cut_width + card_padding_horizontal = container_width.
C27_RightColumnMirrorsLeft ==
    (op.name = "get_xy" /\ op.index % 2 = 1 /\ FitsOneColumn(config)) =>
        /\ ~get_xy_overflows(config, op.index)
        /\ result.kind = "value"
        /\ result.xy[1] >= config.card_padding_horizontal
        /\ result.xy[1] + config.cut_width + config.card_padding_horizontal
              = config.container_width

\* get_xy has returned for an odd index of a fitting config with room to
\* spare between the columns.
C27_Witness ==
    /\ op.name = "get_xy"
    /\ op.index = 3
    /\ FitsOneColumn(config)
    /\ result.kind = "value"
    /\ result.xy[1] > config.card_padding_horizontal

\* C20: for every config of positive fields, minimum_height() is
\* 3 * card_height() + 2 * card_margin_bottom, card_height() is
\* card_padding_top + cut_height + card_padding_bottom, and y_offset() is
\* card_height() + card_margin_bottom.
C20_DerivedHeights ==
    result.kind = "derived" =>
        /\ result.card_height =
              config.card_padding_top + config.cut_height + config.card_padding_bottom
        /\ result.y_offset = result.card_height + config.card_margin_bottom
        /\ result.minimum_height =
              3 * result.card_height + 2 * config.card_margin_bottom

\* The three heights have been computed for a config whose paddings differ.
C20_Witness ==
    /\ result.kind = "derived"
    /\ config # DefaultConfig
    /\ config.card_padding_top # config.card_padding_bottom
    /\ config.card_margin_bottom # config.card_padding_bottom

\* C5, as stated: for every config with positive fields and
\* cut_width + 2*padding_horizontal <= container_width, get_xy maps the
\* indices 0..5 to six distinct origins whose rectangles do not overlap.
C5_SlotsDisjointOneColumn ==
    (result.kind = "slots" /\ FitsOneColumn(config))
        => SlotsDisjoint(config, result.xy)

\* C5, amended: the same for every config with positive fields and
\* 2*cut_width + 2*padding_horizontal <= container_width.
C5_SlotsDisjointTwoColumns ==
    (result.kind = "slots" /\ FitsTwoColumns(config))
        => SlotsDisjoint(config, result.xy)

C5_Witness ==
    /\ result.kind = "slots"
    /\ FitsTwoColumns(config)
    /\ config # DefaultConfig

\* C6: get_xy called with an index outside 0..5 fails with InvalidSlot
\* instead of returning coordinates.
C6_InvalidSlotRejected ==
    (op.name = "get_xy" /\ op.index \notin Slots)
        => result.kind = "InvalidSlot"

\* The default config's values for the three indices the claim names.
DefaultOrigins(height) ==
    /\ result.kind = "derived" =>
          /\ result.card_height = 153
          /\ result.y_offset = 169
          /\ result.minimum_height = height
    /\ (op.name = "get_xy" /\ op.index = 0) =>
          result = [kind |-> "value", xy |-> <<16, 37>>]
    /\ (op.name = "get_xy" /\ op.index = 1) =>
          result = [kind |-> "value", xy |-> <<490, 37>>]
    /\ (op.name = "get_xy" /\ op.index = 2) =>
          result = [kind |-> "value", xy |-> <<16, 206>>]

\* C7, as stated: with the default config card_height = 153, y_offset = 169,
\* minimum_height = 797, and get_xy(0) = (16,37), get_xy(1) = (490,37),
\* get_xy(2) = (16,206).
C7_DefaultsWith797 == config = DefaultConfig => DefaultOrigins(797)

\* C7, amended: the same with minimum_height = 491.
C7_DefaultsWith491 == config = DefaultConfig => DefaultOrigins(491)

C7_Witness ==
    /\ config = DefaultConfig
    /\ result.kind = "derived"
    /\ result.minimum_height = 491

\* C8, as stated: with the default config, get_xy(5) = (490, 374).
C8_Slot5At374 ==
    (config = DefaultConfig /\ op.name = "get_xy" /\ op.index = 5)
        => result = [kind |-> "value", xy |-> <<490, 374>>]

\* C8, amended: with the default config, get_xy(5) = (490, 375).
C8_Slot5At375 ==
    (config = DefaultConfig /\ op.name = "get_xy" /\ op.index = 5)
        => result = [kind |-> "value", xy |-> <<490, 375>>]

C8_Witness ==
    /\ config = DefaultConfig
    /\ op.name = "get_xy"
    /\ op.index = 5
    /\ result.kind = "value"

\* C22: there are positive source dimensions that take the fit branch of
\* calculate_resize_dimensions (width/height < container_width /
\* minimum_height) and get a height below minimum_height: the source
\* 3 x 5743 with container_width 8764 and minimum_height 2^24 + 1 does.
C22_FitBelowMinimum ==
    (result.kind = "dims" /\ config = TallConfig
        /\ <<op.width, op.height>> = NarrowSource) =>
        /\ op.width * minimum_height(config) < op.height * config.container_width
        /\ ~result.cover
        /\ result.dims[2] < minimum_height(config)

\* calculate_resize_dimensions has returned from its fit branch a height
\* below minimum_height.
C22_Witness ==
    /\ result.kind = "dims"
    /\ op.width > 0
    /\ op.height > 0
    /\ ~result.cover
    /\ result.dims[1] = config.container_width
    /\ result.dims[2] < minimum_height(config)

\* C9: for all positive source dimensions and configs,
\* calculate_resize_dimensions returns in the cover branch a width >=
\* container_width and a height >= minimum_height, and in the fit branch a
\* width equal to container_width.
C9_CoverCoversFitLocksWidth ==
    result.kind = "dims" =>
        IF result.cover
        THEN /\ result.dims[1] >= config.container_width
             /\ result.dims[2] >= minimum_height(config)
        ELSE result.dims[1] = config.container_width

(***************************************************************************)
(* GistManager: the list of gists, the selection of the list widget and    *)
(* the key loop of run.  A gist is its id; list_gists may return any list. *)
(***************************************************************************)
GistIds == 1..MaxGists

\* What uploader.list_gists() can return when it succeeds.
GistLists == UNION { [1..n -> GistIds] : n \in 0..MaxGists }

\* usize::saturating_sub.
saturating_sub(a, b) == IF a > b THEN a - b ELSE 0

\* The selection refresh_gists sets once list_gists has returned `listed`.
refreshed_selection(previous_selected, listed) ==
    IF listed = <<>> THEN None
    ELSE IF ~previous_selected.some THEN Some(0)
    ELSE Some(Min(previous_selected.index, saturating_sub(Len(listed), 1)))

\* The index next() selects.
next(selected, held) ==
    IF selected.some
    THEN IF selected.index >= saturating_sub(Len(held), 1)
         THEN 0 ELSE selected.index + 1
    ELSE 0

\* The index previous() selects.
previous(selected, held) ==
    IF selected.some
    THEN IF selected.index = 0
         THEN saturating_sub(Len(held), 1) ELSE selected.index - 1
    ELSE 0

\* selected_gist(): gists.get(i) of the selection.
selected_gist ==
    IF list_state.selected.some /\ list_state.selected.index < Len(gists)
    THEN Some(gists[list_state.selected.index + 1])
    ELSE None

\* refresh_gists(): list_gists fails and nothing changes, or it returns a
\* list, which replaces the gists, and the selection is updated.
refresh_gists ==
    \/ UNCHANGED <<gists, list_state>>
    \/ \E listed \in GistLists :
         /\ gists' = listed
         /\ list_state' = [list_state EXCEPT
                              !.selected = refreshed_selection(@, listed)]

GistInit ==
    /\ config = DefaultConfig
    /\ LayoutIdle
    /\ QuantIdle
    /\ CropIdle
    /\ CodecIdle
    /\ CellIdle
    /\ gists = <<>>
    /\ list_state = [selected |-> None]
    /\ run_pc = [at |-> "new", key |-> "none"]

\* run() up to its loop: the first refresh_gists, whose error ends run.
LoadGists ==
    /\ run_pc.at = "new"
    /\ \/ /\ run_pc' = [run_pc EXCEPT !.at = "failed"]
          /\ UNCHANGED <<gists, list_state>>
       \/ /\ run_pc' = [run_pc EXCEPT !.at = "draw"]
          /\ \E listed \in GistLists :
               /\ gists' = listed
               /\ list_state' = [list_state EXCEPT
                                    !.selected = refreshed_selection(@, listed)]
    /\ UNCHANGED <<config, layoutVars, quantVars, cropVars, codecVars, cellVars>>

\* terminal.draw: the list is rendered with the state.  The widget leaves
\* the selection alone or, in the releases of the widget that repair it,
\* drops a selection on an empty list and moves one past the end to the
\* last item.
Draw ==
    /\ run_pc.at = "draw"
    /\ run_pc' = [run_pc EXCEPT !.at = "read"]
    /\ \/ UNCHANGED list_state
       \/ list_state' =
            IF gists = <<>> THEN [list_state EXCEPT !.selected = None]
            ELSE IF list_state.selected.some
                    /\ list_state.selected.index >= Len(gists)
            THEN [list_state EXCEPT !.selected = Some(Len(gists) - 1)]
            ELSE list_state
    /\ UNCHANGED <<config, layoutVars, quantVars, cropVars, codecVars, cellVars,
                   gists>>

\* 'q'.
KeyQuit ==
    /\ run_pc.at = "read"
    /\ run_pc' = [at |-> "quit", key |-> "q"]
    /\ UNCHANGED <<config, layoutVars, quantVars, cropVars, codecVars, cellVars,
                   gists, list_state>>

\* Up: previous().
KeyUp ==
    /\ run_pc.at = "read"
    /\ list_state' = [list_state EXCEPT
                         !.selected = Some(previous(list_state.selected, gists))]
    /\ run_pc' = [at |-> "draw", key |-> "Up"]
    /\ UNCHANGED <<config, layoutVars, quantVars, cropVars, codecVars, cellVars,
                   gists>>

\* Down: next().
KeyDown ==
    /\ run_pc.at = "read"
    /\ list_state' = [list_state EXCEPT
                         !.selected = Some(next(list_state.selected, gists))]
    /\ run_pc' = [at |-> "draw", key |-> "Down"]
    /\ UNCHANGED <<config, layoutVars, quantVars, cropVars, codecVars, cellVars,
                   gists>>

\* 'd': with a gist selected, delete_gist, whose result is dropped, and
\* refresh_gists, whose result is dropped.
KeyDelete ==
    /\ run_pc.at = "read"
    /\ IF selected_gist.some THEN refresh_gists
       ELSE UNCHANGED <<gists, list_state>>
    /\ run_pc' = [at |-> "draw", key |-> "d"]
    /\ UNCHANGED <<config, layoutVars, quantVars, cropVars, codecVars, cellVars>>

\* 'r': refresh_gists, whose result is dropped.
KeyRefresh ==
    /\ run_pc.at = "read"
    /\ refresh_gists
    /\ run_pc' = [at |-> "draw", key |-> "r"]
    /\ UNCHANGED <<config, layoutVars, quantVars, cropVars, codecVars, cellVars>>

\* 'c', 'o', any other key and any other event: the manager is unchanged.
KeyOther ==
    /\ run_pc.at = "read"
    /\ run_pc' = [at |-> "draw", key |-> "other"]
    /\ UNCHANGED <<config, layoutVars, quantVars, cropVars, codecVars, cellVars,
                   gists, list_state>>

GistNext ==
    \/ LoadGists
    \/ Draw
    \/ KeyQuit
    \/ KeyUp
    \/ KeyDown
    \/ KeyDelete
    \/ KeyRefresh
    \/ KeyOther

SpecGist == GistInit /\ [][GistNext]_vars

\* C26: in the gist manager, in every state reachable by any sequence of Up,
\* Down, refresh and delete key events, whatever lists the refreshes return,
\* the selection is either None or an index strictly below the number of
\* gists held.
C26_SelectionInRange ==
    run_pc.at # "none" =>
        (list_state.selected.some => list_state.selected.index < Len(gists))

====
